---- MODULE Spec2Model ----
(***************************************************************************)
(* Model of the per-request user-state pipeline of the support bot:       *)
(*   app/bot/middlewares/redis.py   RedisMiddleware.__call__              *)
(*   app/bot/utils/redis/redis.py   RedisStorage (MongoDB "users")        *)
(* Every inbound event is one task: task t processes the t-th event. A    *)
(* task suspends only at its awaits (get_user, update_user, handler), so  *)
(* each await is one action and the tasks interleave at those points.     *)
(* Any store operation may fail; a task whose event met an exception ends *)
(* in "failed".                                                           *)
(*                                                                        *)
(* Python values: None is the empty tuple, an optional value x is <<x>>.  *)
(* A dict is a function from its keys; a UserData object is the record of *)
(* its attributes.                                                        *)
(***************************************************************************)
EXTENDS Integers, Sequences, FiniteSets, TLC

\* ------------------------------------------------------------ bounds
MaxTasks == 2     \* events received; task t processes the t-th of them

Tasks == 1..MaxTasks
Users == {1, 2}

None == <<>>
Some(x) == <<x>>

\* ------------------------------------------------------------ inputs
ChatTypes == {"private", "group"}

\* aiogram User: id, full_name, username (optional)
Ann(u) == [id |-> u, full_name |-> "Ann", username |-> Some("alice")]
Bob(u) == [id |-> u, full_name |-> "Bob", username |-> None]
Identities == {Ann(u) : u \in Users} \cup {Bob(u) : u \in Users}

\* data["event_chat"].type and data["event_from_user"]; the user of an event
\* outside a private chat is never read, one identity stands for all
Events == [chat_type : {"private"}, user : {None} \cup {Some(i) : i \in Identities}]
          \cup [chat_type : ChatTypes \ {"private"}, user : {None, Some(Ann(1))}]

\* SUPPORTED_LANGUAGES.keys() of the deployment, in order
LanguageSets == {<<"en">>, <<"en", "ru">>}

\* ------------------------------------------------------------ UserData
UserDataFields == {"message_thread_id", "message_silent_id", "message_silent_mode",
                   "is_banned", "id", "full_name", "username", "language_code"}

\* the arguments every construction passes; language_code alone has a default
RequiredFields == UserDataFields \ {"language_code"}

OptionalValued == {"message_thread_id", "message_silent_id", "language_code"}

\* data.to_dict(): the dict of every attribute of the object
to_dict(ud) == [k \in UserDataFields |-> ud[k]]

\* UserData(**doc): TypeError on an unexpected or a missing required argument
CanParse(doc) == /\ DOMAIN doc \subseteq UserDataFields
                 /\ RequiredFields \subseteq DOMAIN doc

UserDataOf(doc) == [k \in UserDataFields |->
                      IF k \in DOMAIN doc THEN doc[k] ELSE None]

\* ------------------------------------------------------------ json
\* json.dumps: None -> null, every other value -> its JSON literal
JsonToken(k, v) == IF k \in OptionalValued
                     THEN IF v = None THEN [tok |-> "null"]
                                      ELSE [tok |-> "lit", lit |-> v[1]]
                     ELSE [tok |-> "lit", lit |-> v]

json_dumps(d) == [k \in DOMAIN d |-> JsonToken(k, d[k])]

\* json.loads: null -> None, a literal -> its value
JsonValue(k, j) == IF j.tok = "null" THEN None
                   ELSE IF k \in OptionalValued THEN Some(j.lit) ELSE j.lit

json_loads(j) == [k \in DOMAIN j |-> JsonValue(k, j[k])]

\* ------------------------------------------------------------ collection
\* the "users" collection: a set of documents, each with a storage-assigned _id
Pop_id(doc) == [k \in DOMAIN doc \ {"_id"} |-> doc[k]]

Matching(c, id_) == {d \in c : d["id"] = id_}

\* $set: the keys of value overwrite, every other key of the document stays
SetFields(doc, value) == [k \in DOMAIN doc \cup DOMAIN value |->
                            IF k \in DOMAIN value THEN value[k] ELSE doc[k]]

NewOid(c) == Cardinality(c) + 1

\* an insert on every call, whether or not a document matches
insert_always(c, id_, d, value) ==
    c \cup {SetFields([_id |-> NewOid(c), id |-> id_], value)}

\* update_one(filter, {"$set": value}, upsert=True) on the document d it matched,
\* or the insert of filter + value when nothing matches (d = None)
update_one(c, id_, d, value) ==
    IF d = None
      THEN c \cup {SetFields([_id |-> NewOid(c), id |-> id_], value)}
      ELSE (c \ {d[1]}) \cup {SetFields(d[1], value)}

\* find_one: a matching document, or None
FindOne(c, id_) == IF Matching(c, id_) = {} THEN {None}
                   ELSE {Some(d) : d \in Matching(c, id_)}

\* _set with $setOnInsert in place of $set: a matched document is left alone
set_on_insert(c, id_, d, value) == IF d = None THEN update_one(c, id_, d, value) ELSE c

\* _set without upsert=True: nothing is written when no document matches
set_if_exists(c, id_, d, value) == IF d = None THEN c ELSE update_one(c, id_, d, value)

\* RedisStorage._set
_set(c, id_, d, value) == update_one(c, id_, d, value)

\* RedisStorage.update_user: the collection after the upsert of data
update_user(c, id_, d, data) == _set(c, id_, d, json_loads(json_dumps(to_dict(data))))

\* ------------------------------------------------------------ resolver
\* f"@{user.username}" if user.username else "-"
FormatUsername(user) == IF user.username = None THEN "-"
                        ELSE "@" \o user.username[1]

\* UserData(...) of a user with no stored record
NewUserData(user) == [message_thread_id |-> None,
                      message_silent_id |-> None,
                      message_silent_mode |-> FALSE,
                      is_banned |-> FALSE,
                      id |-> user.id,
                      full_name |-> user.full_name,
                      username |-> FormatUsername(user),
                      language_code |-> None]

\* a profile built anew for every event, the stored one dropped
Rebuild(ud, user) == NewUserData(user)

\* a refresh that takes the new full_name and keeps the stored username
RefreshNameOnly(ud, user) == [ud EXCEPT !.full_name = user.full_name]

\* the stored record with full_name and username overwritten
Refresh(ud, user) == [ud EXCEPT !.full_name = user.full_name,
                                !.username = FormatUsername(user)]

\* the single language as a default for a profile that has none
ApplyLanguageOnce(ud, langs) ==
    IF Len(langs) = 1 /\ ud.language_code = None
      THEN [ud EXCEPT !.language_code = Some(langs[1])]
      ELSE ud

\* the first language assigned whatever the number of supported languages
ApplyLanguageAlways(ud, langs) == [ud EXCEPT !.language_code = Some(langs[1])]

\* if len(SUPPORTED_LANGUAGES.keys()) == 1: language_code = the first key
ApplyLanguage(ud, langs) == IF Len(langs) = 1
                              THEN [ud EXCEPT !.language_code = Some(langs[1])]
                              ELSE ud

\* user_data after the lines between the two awaits
Resolve(stored, user, langs) ==
    ApplyLanguage(IF stored = None THEN NewUserData(user)
                                   ELSE Refresh(stored[1], user), langs)

\* the branch condition without its chat-type test
HasUser(e) == e.user # None

\* chat.type == "private" and user is not None
IsPrivateWithUser(e) == e.chat_type = "private" /\ e.user # None

\* the profile put into the context without the storage handle
InjectWithoutStore(ud) == [user_data |-> ud]

\* data["redis"] = redis; data["user_data"] = user_data
Inject(ud) == [redis |-> "RedisStorage", user_data |-> ud]

NotInjected == [k \in {} |-> None]

\* ------------------------------------------------------------ stored records
\* records written before this process started
Member(u) == [_id |-> u, id |-> u, full_name |-> "Old", username |-> "@old",
              is_banned |-> FALSE, message_thread_id |-> None,
              message_silent_id |-> None, message_silent_mode |-> FALSE,
              language_code |-> None]

Veteran(u) == [_id |-> u, id |-> u, full_name |-> "Old", username |-> "@old",
               is_banned |-> TRUE, message_thread_id |-> Some(42),
               message_silent_id |-> Some(7), message_silent_mode |-> TRUE,
               language_code |-> Some("ru")]

\* a document that lacks a required field
Legacy(u) == [_id |-> u, id |-> u, username |-> "@old", is_banned |-> FALSE,
              message_thread_id |-> None, message_silent_id |-> None,
              message_silent_mode |-> FALSE, language_code |-> None]

\* a document that carries a key UserData has no attribute for
Foreign(u) == [_id |-> u, id |-> u, full_name |-> "Old", username |-> "@old",
               is_banned |-> FALSE, message_thread_id |-> None,
               message_silent_id |-> None, message_silent_mode |-> FALSE,
               language_code |-> None, note |-> "imported"]

\* user 1 may have a record when the process starts, user 2 is new
InitialCollections == {{}, {Veteran(1)}, {Member(1)}, {Legacy(1)}, {Foreign(1)}}

\* the forum topic a handler opens for the event of task t
ThreadOf(t) == 50 + t

\* ------------------------------------------------------------ state
VARIABLES main,        \* main(): its position, the scheduler, the cleanup steps
          supported,   \* SUPPORTED_LANGUAGES.keys()
          col,         \* the users collection
          pc,          \* where each task is
          event,       \* the event of each task
          user_redis,  \* what get_user returned
          user_data,   \* the resolved profile
          data,        \* the keys the middleware put into the context
          reads,       \* store reads of the task's event
          writes,      \* store writes the middleware attempted for the event
          calls,       \* handler invocations for the event
          creations,   \* times the creation path was taken, per user id
          faulted,     \* a store operation has failed
          raised,      \* the exception raised inside __call__, "" when none was
          outOfCore    \* a handler has written to the collection

vars == <<main, supported, col, pc, event, user_redis, user_data, data, reads, writes,
          calls, creations, faulted, raised, outOfCore>>

NoEvent == [chat_type |-> "group", user |-> None]

\* the four steps of the finally block of main, in order
CleanupSteps == <<"scheduler", "pymongo", "motor", "session">>

\* main() before "await bot.delete_webhook()": the scheduler is constructed
\* and not started, no cleanup step has been attempted
MainInit == [pc |-> "delete_webhook",
             scheduler |-> "new",
             failed |-> FALSE,
             on_shutdown |-> FALSE,
             wait |-> None,
             steps |-> [i \in 1..Len(CleanupSteps) |-> "pending"]]

Init == /\ main = MainInit
        /\ supported \in LanguageSets
        /\ col \in InitialCollections
        /\ pc = [t \in Tasks |-> "idle"]
        /\ event = [t \in Tasks |-> NoEvent]
        /\ user_redis = [t \in Tasks |-> None]
        /\ user_data = [t \in Tasks |-> None]
        /\ data = [t \in Tasks |-> NotInjected]
        /\ reads = [t \in Tasks |-> 0]
        /\ writes = [t \in Tasks |-> 0]
        /\ calls = [t \in Tasks |-> 0]
        /\ creations = [u \in Users |-> 0]
        /\ faulted = FALSE
        /\ raised = [t \in Tasks |-> ""]
        /\ outOfCore = FALSE

UserOf(t) == event[t].user[1]

\* ------------------------------------------------------------ middleware
\* Begin with a private event without a user rejected as InvalidIdentity
BeginStrict(t, e) ==
    /\ pc[t] = "idle"
    /\ \A s \in Tasks : s < t => pc[s] # "idle"
    /\ event' = [event EXCEPT ![t] = e]
    /\ IF IsPrivateWithUser(e)
         THEN /\ pc' = [pc EXCEPT ![t] = "get_user"]
              /\ UNCHANGED <<data, raised>>
         ELSE IF e.chat_type = "private"
                THEN /\ pc' = [pc EXCEPT ![t] = "failed"]
                     /\ raised' = [raised EXCEPT ![t] = "InvalidIdentity"]
                     /\ UNCHANGED data
                ELSE /\ pc' = [pc EXCEPT ![t] = "handler"]
                     /\ data' = [data EXCEPT ![t] = Inject(None)]
                     /\ UNCHANGED raised
    /\ UNCHANGED <<main, supported, col, user_redis, user_data, reads, writes, calls,
                   creations, faulted, outOfCore>>

\* __call__ up to its first await: the branch on chat type and user
Begin(t, e) ==
    /\ pc[t] = "idle"
    /\ \A s \in Tasks : s < t => pc[s] # "idle"
    /\ event' = [event EXCEPT ![t] = e]
    /\ IF IsPrivateWithUser(e)
         THEN /\ pc' = [pc EXCEPT ![t] = "get_user"]
              /\ UNCHANGED data
         ELSE /\ pc' = [pc EXCEPT ![t] = "handler"]
              /\ data' = [data EXCEPT ![t] = Inject(None)]
    /\ UNCHANGED <<main, supported, col, user_redis, user_data, reads, writes, calls,
                   creations, faulted, raised, outOfCore>>

\* await redis.get_user(user.id) returns; the resolver runs up to update_user
GetUserOk(t) ==
    /\ pc[t] = "get_user"
    /\ \E doc \in FindOne(col, UserOf(t).id) :
         /\ doc # None => CanParse(Pop_id(doc[1]))
         /\ LET stored == IF doc = None THEN None
                          ELSE Some(UserDataOf(Pop_id(doc[1])))
            IN /\ user_redis' = [user_redis EXCEPT ![t] = stored]
               /\ user_data' = [user_data EXCEPT ![t] =
                                  Some(Resolve(stored, UserOf(t), supported))]
               /\ creations' = [creations EXCEPT ![UserOf(t).id] =
                                  IF stored = None THEN @ + 1 ELSE @]
    /\ reads' = [reads EXCEPT ![t] = @ + 1]
    /\ pc' = [pc EXCEPT ![t] = "update_user"]
    /\ UNCHANGED <<main, supported, col, event, data, writes, calls, faulted,
                   raised, outOfCore>>

\* get_user answering None for a document it cannot parse: defaults are built
GetUserMalformedAsDefaults(t) ==
    /\ pc[t] = "get_user"
    /\ \E doc \in FindOne(col, UserOf(t).id) :
         doc # None /\ ~CanParse(Pop_id(doc[1]))
    /\ reads' = [reads EXCEPT ![t] = @ + 1]
    /\ user_data' = [user_data EXCEPT ![t] =
                       Some(Resolve(None, UserOf(t), supported))]
    /\ creations' = [creations EXCEPT ![UserOf(t).id] = @ + 1]
    /\ pc' = [pc EXCEPT ![t] = "update_user"]
    /\ UNCHANGED <<main, supported, col, event, user_redis, data, writes, calls,
                   faulted, raised, outOfCore>>

\* UserData(**doc) raises inside get_user: the exception leaves __call__
GetUserMalformed(t) ==
    /\ pc[t] = "get_user"
    /\ \E doc \in FindOne(col, UserOf(t).id) :
         doc # None /\ ~CanParse(Pop_id(doc[1]))
    /\ reads' = [reads EXCEPT ![t] = @ + 1]
    /\ raised' = [raised EXCEPT ![t] = "TypeError"]
    /\ pc' = [pc EXCEPT ![t] = "failed"]
    /\ UNCHANGED <<main, supported, col, event, user_redis, user_data, data, writes,
                   calls, creations, faulted, outOfCore>>

\* find_one raises and get_user answers None instead of letting it through
GetUserFaultAsAbsent(t) ==
    /\ pc[t] = "get_user"
    /\ faulted' = TRUE
    /\ reads' = [reads EXCEPT ![t] = @ + 1]
    /\ raised' = [raised EXCEPT ![t] = "StoreUnavailable"]
    /\ user_data' = [user_data EXCEPT ![t] =
                       Some(Resolve(None, UserOf(t), supported))]
    /\ creations' = [creations EXCEPT ![UserOf(t).id] = @ + 1]
    /\ pc' = [pc EXCEPT ![t] = "update_user"]
    /\ UNCHANGED <<main, supported, col, event, user_redis, data, writes, calls,
                   outOfCore>>

\* find_one raises (connectivity, timeout): the exception leaves __call__
GetUserFault(t) ==
    /\ pc[t] = "get_user"
    /\ faulted' = TRUE
    /\ reads' = [reads EXCEPT ![t] = @ + 1]
    /\ raised' = [raised EXCEPT ![t] = "StoreUnavailable"]
    /\ pc' = [pc EXCEPT ![t] = "failed"]
    /\ UNCHANGED <<main, supported, col, event, user_redis, user_data, data, writes,
                   calls, creations, outOfCore>>

\* update_user skipped when the resolved profile equals the one read
UpdateUserSkipUnchanged(t) ==
    /\ pc[t] = "update_user"
    /\ IF user_redis[t] = user_data[t]
         THEN UNCHANGED <<col, writes>>
         ELSE /\ \E d \in FindOne(col, UserOf(t).id) :
                   col' = update_user(col, UserOf(t).id, d, user_data[t][1])
              /\ writes' = [writes EXCEPT ![t] = @ + 1]
    /\ data' = [data EXCEPT ![t] = Inject(user_data[t])]
    /\ pc' = [pc EXCEPT ![t] = "handler"]
    /\ UNCHANGED <<main, supported, event, user_redis, user_data, reads, calls,
                   creations, faulted, raised, outOfCore>>

\* await redis.update_user(user.id, user_data) returns; the context is filled
UpdateUserOk(t) ==
    /\ pc[t] = "update_user"
    /\ \E d \in FindOne(col, UserOf(t).id) :
         col' = update_user(col, UserOf(t).id, d, user_data[t][1])
    /\ writes' = [writes EXCEPT ![t] = @ + 1]
    /\ data' = [data EXCEPT ![t] = Inject(user_data[t])]
    /\ pc' = [pc EXCEPT ![t] = "handler"]
    /\ UNCHANGED <<main, supported, event, user_redis, user_data, reads, calls,
                   creations, faulted, raised, outOfCore>>

\* update_one raises: the server applied the update or it did not
UpdateUserFault(t) ==
    /\ pc[t] = "update_user"
    /\ faulted' = TRUE
    /\ \/ col' = col
       \/ \E d \in FindOne(col, UserOf(t).id) :
            col' = update_user(col, UserOf(t).id, d, user_data[t][1])
    /\ writes' = [writes EXCEPT ![t] = @ + 1]
    /\ raised' = [raised EXCEPT ![t] = "StoreUnavailable"]
    /\ pc' = [pc EXCEPT ![t] = "failed"]
    /\ UNCHANGED <<main, supported, event, user_redis, user_data, data, reads, calls,
                   creations, outOfCore>>

\* ------------------------------------------------------------ handlers
\* return await handler(event, data): a handler that writes nothing
HandlerPlain(t) ==
    /\ pc[t] = "handler"
    /\ calls' = [calls EXCEPT ![t] = @ + 1]
    /\ pc' = [pc EXCEPT ![t] = "done"]
    /\ UNCHANGED <<main, supported, col, event, user_redis, user_data, data, reads,
                   writes, creations, faulted, raised, outOfCore>>

\* a handler that opens a topic for a user without one and stores its id with
\* data["redis"].update_user(user_data.id, user_data)
HandlerThread(t) ==
    /\ pc[t] = "handler"
    /\ data[t].user_data # None
    /\ data[t].user_data[1].message_thread_id = None
    /\ LET ud == [data[t].user_data[1] EXCEPT
                    !.message_thread_id = Some(ThreadOf(t))]
       IN \E d \in FindOne(col, ud.id) : col' = update_user(col, ud.id, d, ud)
    /\ outOfCore' = TRUE
    /\ calls' = [calls EXCEPT ![t] = @ + 1]
    /\ pc' = [pc EXCEPT ![t] = "done"]
    /\ UNCHANGED <<main, supported, event, user_redis, user_data, data, reads, writes,
                   creations, faulted, raised>>

\* a handler of a staff-group event that bans user u: it reads the record, sets
\* is_banned and stores it with update_user
HandlerBan(t, u) ==
    /\ pc[t] = "handler"
    /\ data[t].user_data = None
    /\ \E d \in Matching(col, u) :
         /\ CanParse(Pop_id(d))
         /\ col' = update_user(col, u, Some(d),
                               [UserDataOf(Pop_id(d)) EXCEPT !.is_banned = TRUE])
    /\ outOfCore' = TRUE
    /\ calls' = [calls EXCEPT ![t] = @ + 1]
    /\ pc' = [pc EXCEPT ![t] = "done"]
    /\ UNCHANGED <<main, supported, event, user_redis, user_data, data, reads, writes,
                   creations, faulted, raised>>

Next == \/ \E t \in Tasks, e \in Events : Begin(t, e)
        \/ \E t \in Tasks : GetUserOk(t)
        \/ \E t \in Tasks : GetUserMalformed(t)
        \/ \E t \in Tasks : GetUserFault(t)
        \/ \E t \in Tasks : UpdateUserOk(t)
        \/ \E t \in Tasks : UpdateUserFault(t)
        \/ \E t \in Tasks : HandlerPlain(t)
        \/ \E t \in Tasks : HandlerThread(t)
        \/ \E t \in Tasks, u \in Users : HandlerBan(t, u)

Spec == Init /\ [][Next]_vars

TypeOK == /\ supported \in LanguageSets
          /\ \A t \in Tasks : pc[t] \in {"idle", "get_user", "update_user",
                                         "handler", "done", "failed"}
          /\ \A t \in Tasks : event[t] \in Events
          /\ faulted \in BOOLEAN

\* ------------------------------------------------------------ properties
Started(t) == pc[t] # "idle"

Invoked(t) == pc[t] \in {"handler", "done"}

\* the documents of user u, without their _id
Stored(c, u) == {Pop_id(d) : d \in Matching(c, u)}

\* C1: an event that is not private, or has no acting user, causes no store read
\* and no store write by the middleware, gets user_data = None injected, and
\* reaches the handler, which is invoked once.
NonPrivateBypass ==
    \A t \in Tasks :
        (Started(t) /\ (event[t].chat_type # "private" \/ event[t].user = None)) =>
            /\ reads[t] = 0
            /\ writes[t] = 0
            /\ raised[t] = ""
            /\ Invoked(t)
            /\ data[t] = Inject(None)
            /\ calls[t] = (IF pc[t] = "done" THEN 1 ELSE 0)

NonPrivateBypassWitness ==
    \E t \in Tasks : /\ pc[t] = "done"
                     /\ event[t].chat_type = "group"
                     /\ event[t].user # None
                     /\ calls[t] = 1
                     /\ data[t] = Inject(None)

\* C2: when the only two events are private events of the same user with
\* different full names and no store operation fails, neither event fails on
\* a parsable record, and once both have written, the user has one stored
\* document and it equals the resolved profile of exactly one of the two.
ConcurrentUpsertSafety ==
    \A t1, t2 \in Tasks :
        (/\ t1 # t2
         /\ \A t3 \in Tasks \ {t1, t2} : ~Started(t3)
         /\ ~faulted /\ ~outOfCore
         /\ Started(t1) /\ Started(t2)
         /\ IsPrivateWithUser(event[t1]) /\ IsPrivateWithUser(event[t2])
         /\ UserOf(t1).id = UserOf(t2).id
         /\ UserOf(t1).full_name # UserOf(t2).full_name
         /\ \A d \in col : CanParse(Pop_id(d))) =>
            /\ pc[t1] # "failed" /\ pc[t2] # "failed"
            /\ (Invoked(t1) /\ Invoked(t2)) =>
                 /\ Cardinality(Matching(col, UserOf(t1).id)) = 1
                 /\ (Stored(col, UserOf(t1).id) = {user_data[t1][1]})
                      # (Stored(col, UserOf(t1).id) = {user_data[t2][1]})

\* both events read before either wrote, and both have written
ConcurrentUpsertWitness ==
    \E t1, t2 \in Tasks :
        /\ t1 # t2 /\ ~faulted /\ ~outOfCore
        /\ \A t3 \in Tasks \ {t1, t2} : ~Started(t3)
        /\ pc[t1] = "done" /\ pc[t2] = "done"
        /\ IsPrivateWithUser(event[t1]) /\ IsPrivateWithUser(event[t2])
        /\ UserOf(t1).id = UserOf(t2).id
        /\ UserOf(t1).full_name # UserOf(t2).full_name
        /\ UserOf(t1).username # UserOf(t2).username
        /\ user_redis[t1] = None /\ user_redis[t2] = None
        /\ Stored(col, UserOf(t1).id) = {user_data[t2][1]}

\* the step in which task t's update_user is performed
MiddlewareWrite(t) == pc[t] = "update_user" /\ pc'[t] # "update_user"

\* C3: is_banned is sticky: no write of the middleware turns a stored
\* is_banned = true of any user back to false.
BanSticky ==
    [][\A t \in Tasks, u \in Users :
          MiddlewareWrite(t) =>
              ((\E d \in Matching(col, u) : d.is_banned) =>
                   (\E d \in Matching(col', u) : d.is_banned))]_vars

\* C4: no write of the middleware changes a stored message_thread_id to absent
\* or to another value.
ThreadKept ==
    [][\A t \in Tasks, u \in Users :
          MiddlewareWrite(t) =>
              \A d \in Matching(col, u) :
                  d.message_thread_id # None =>
                      \E d2 \in Matching(col', u) :
                          d2.message_thread_id = d.message_thread_id]_vars

\* C5: for each user id the creation-with-defaults path is taken at most once
\* while no store operation fails: every event after the first one refreshes.
CreatedOnce == \A u \in Users : ~faulted => creations[u] <= 1

\* the fields the refresh path must hand through
PreservedFields == {"is_banned", "message_thread_id", "message_silent_id",
                    "message_silent_mode", "id"}

\* C6: when an event of a user with a stored profile writes and nothing has
\* changed the record since it was read, the record written has the event's
\* full name and formatted username and the read values of is_banned,
\* message_thread_id, message_silent_id, message_silent_mode and id.
RefreshFrame ==
    [][\A t \in Tasks :
          (/\ pc[t] = "update_user" /\ pc'[t] = "handler"
           /\ user_redis[t] # None
           /\ Stored(col, UserOf(t).id) = {user_redis[t][1]}) =>
              \E d \in Stored(col', UserOf(t).id) :
                  /\ Stored(col', UserOf(t).id) = {d}
                  /\ d.full_name = UserOf(t).full_name
                  /\ d.username = FormatUsername(UserOf(t))
                  /\ \A k \in PreservedFields : d[k] = user_redis[t][1][k]]_vars

RefreshFrameWitness ==
    \E t \in Tasks :
        /\ pc[t] = "handler"
        /\ user_redis[t] # None
        /\ user_redis[t][1].is_banned
        /\ user_redis[t][1].message_thread_id = Some(42)
        /\ user_redis[t][1].full_name # UserOf(t).full_name
        /\ Stored(col, UserOf(t).id) = {user_data[t][1]}
        /\ user_data[t][1].is_banned
        /\ user_data[t][1].message_thread_id = Some(42)
        /\ user_data[t][1].full_name = UserOf(t).full_name

\* C7: a private event with a user reads the store once and writes it at most
\* once, in the order read, write, handler: the write is pending after the
\* read, and the handler is reached only after one write, also when the
\* resolved profile equals the one read.
OneReadOneWrite ==
    \A t \in Tasks :
        (Started(t) /\ IsPrivateWithUser(event[t])) =>
            /\ pc[t] = "get_user" => reads[t] = 0 /\ writes[t] = 0 /\ calls[t] = 0
            /\ pc[t] = "update_user" => reads[t] = 1 /\ writes[t] = 0 /\ calls[t] = 0
            /\ pc[t] = "handler" => reads[t] = 1 /\ writes[t] = 1 /\ calls[t] = 0
            /\ pc[t] = "done" => reads[t] = 1 /\ writes[t] = 1 /\ calls[t] = 1
            /\ pc[t] = "failed" => reads[t] = 1 /\ writes[t] <= 1 /\ calls[t] = 0

\* the write happened although the resolved profile is the one read
OneReadOneWriteWitness ==
    \E t \in Tasks :
        /\ pc[t] = "done"
        /\ IsPrivateWithUser(event[t])
        /\ user_redis[t] # None
        /\ user_redis[t] = user_data[t]
        /\ reads[t] = 1 /\ writes[t] = 1 /\ calls[t] = 1

\* what holds of a task whose event met an exception
FailureState ==
    \A t \in Tasks :
        (raised[t] # "" \/ pc[t] = "failed") =>
            /\ pc[t] = "failed" /\ raised[t] # ""
            /\ data[t] = NotInjected
            /\ calls[t] = 0
            /\ reads[t] = 1 /\ writes[t] <= 1
            /\ user_data[t] = None => writes[t] = 0

\* C8: a failed read or write ends the event: nothing is injected, the handler
\* is not invoked, nothing is retried, a failed read is followed by no write,
\* and the failing step leaves the collection as it was or with the user's
\* record equal to the resolved profile.
FailurePropagates ==
    [][/\ FailureState'
       /\ \A t \in Tasks :
            /\ pc[t] = "failed" =>
                 pc'[t] = "failed" /\ reads'[t] = reads[t] /\ writes'[t] = writes[t]
            /\ (pc[t] # "failed" /\ pc'[t] = "failed") =>
                 \/ col' = col
                 \/ /\ pc[t] = "update_user"
                    /\ Stored(col', UserOf(t).id) = {user_data[t][1]}
                    /\ \A u \in Users \ {UserOf(t).id} :
                         Matching(col', u) = Matching(col, u)]_vars

\* the write was reported failed after the server had applied it
FailurePropagatesWitness ==
    \E t \in Tasks :
        /\ pc[t] = "failed"
        /\ raised[t] = "StoreUnavailable"
        /\ writes[t] = 1
        /\ user_redis[t] # None
        /\ user_redis[t] # user_data[t]
        /\ Stored(col, UserOf(t).id) = {user_data[t][1]}
        /\ data[t] = NotInjected

\* C9: a private event without an acting user is failed as InvalidIdentity and
\* its handler is not invoked.
PrivateNoUserFails ==
    \A t \in Tasks :
        (Started(t) /\ event[t].chat_type = "private" /\ event[t].user = None) =>
            /\ pc[t] = "failed"
            /\ raised[t] = "InvalidIdentity"
            /\ calls[t] = 0

\* C9 as amended: a private event without an acting user raises nothing: with
\* no store access it gets user_data = None injected and reaches the handler.
PrivateNoUserBypass ==
    \A t \in Tasks :
        (Started(t) /\ event[t].chat_type = "private" /\ event[t].user = None) =>
            /\ raised[t] = ""
            /\ Invoked(t)
            /\ reads[t] = 0 /\ writes[t] = 0
            /\ "user_data" \in DOMAIN data[t] /\ data[t].user_data = None

PrivateNoUserBypassWitness ==
    \E t \in Tasks : /\ pc[t] = "done"
                     /\ event[t].chat_type = "private"
                     /\ event[t].user = None
                     /\ calls[t] = 1
                     /\ raised[t] = ""

\* the language of the resolved and of the injected profile is the single one
PinnedState ==
    \A t \in Tasks :
        /\ user_data[t] # None =>
             user_data[t][1].language_code = Some(supported[1])
        /\ (Invoked(t) /\ IsPrivateWithUser(event[t])) =>
             data[t].user_data[1].language_code = Some(supported[1])

\* C10: with exactly one supported language L, every profile the middleware
\* resolves, injects and writes has language_code = L, whatever was stored.
SingleLanguagePin ==
    [][Len(supported) = 1 =>
         /\ PinnedState'
         /\ \A t \in Tasks :
              (MiddlewareWrite(t) /\ (pc'[t] = "handler" \/ col' # col)) =>
                  \A d \in Matching(col', UserOf(t).id) :
                      d.language_code = Some(supported[1])]_vars

\* an event met a stored "ru" and a later one met the pinned value
SingleLanguagePinWitness ==
    /\ supported = <<"en">>
    /\ \E t1, t2 \in Tasks :
         /\ pc[t1] = "done" /\ pc[t2] = "done"
         /\ user_redis[t1] # None /\ user_redis[t2] # None
         /\ user_redis[t1][1].language_code = Some("ru")
         /\ user_redis[t2][1].language_code = Some("en")
         /\ data[t1].user_data[1].language_code = Some("en")
         /\ data[t2].user_data[1].language_code = Some("en")
         /\ \A d \in Matching(col, UserOf(t2).id) : d.language_code = Some("en")

\* the language_code the event of task t found stored, None for a new user
LanguageRead(t) == IF user_redis[t] = None THEN None
                   ELSE user_redis[t][1].language_code

\* the resolved and the injected profile carry the language that was read
UntouchedState ==
    \A t \in Tasks :
        /\ user_data[t] # None => user_data[t][1].language_code = LanguageRead(t)
        /\ (Invoked(t) /\ IsPrivateWithUser(event[t])) =>
             data[t].user_data[1].language_code = LanguageRead(t)

\* C11: when the deployment does not support exactly one language, the profile
\* the middleware resolves, injects and writes has the language_code of the
\* record read, and none for a newly created profile.
MultiLanguageUntouched ==
    [][Len(supported) # 1 =>
         /\ UntouchedState'
         /\ \A t \in Tasks :
              (MiddlewareWrite(t) /\ pc'[t] = "handler") =>
                  \E d \in Matching(col', UserOf(t).id) :
                      d.language_code = LanguageRead(t)]_vars

\* one event kept a stored "ru", another created a profile without language
MultiLanguageUntouchedWitness ==
    /\ Len(supported) = 2
    /\ \E t1, t2 \in Tasks :
         /\ pc[t1] = "done" /\ pc[t2] = "done"
         /\ user_redis[t1] # None
         /\ user_redis[t1][1].language_code = Some("ru")
         /\ data[t1].user_data[1].language_code = Some("ru")
         /\ \A d \in Matching(col, UserOf(t1).id) : d.language_code = Some("ru")
         /\ user_redis[t2] = None
         /\ IsPrivateWithUser(event[t2])
         /\ data[t2].user_data[1].language_code = None
         /\ \A d \in Matching(col, UserOf(t2).id) : d.language_code = None

\* "@" and the username, or the sentinel
ExpectedUsername(t) == IF UserOf(t).username = None THEN "-"
                       ELSE "@" \o UserOf(t).username[1]

\* C12: on the creation path and on the refresh path the username the
\* middleware resolves, injects and stores is "@" followed by the user's
\* username when there is one, and "-" when there is none.
UsernameFormatting ==
    [][\A t \in Tasks :
          /\ user_data'[t] # None => user_data'[t][1].username = ExpectedUsername(t)'
          /\ (MiddlewareWrite(t) /\ pc'[t] = "handler") =>
               /\ data'[t].user_data[1].username = ExpectedUsername(t)
               /\ \E d \in Matching(col', UserOf(t).id) :
                    d.username = ExpectedUsername(t)]_vars

\* a user created as "@alice" was refreshed to "-" by an event without username
UsernameFormattingWitness ==
    \E t1, t2 \in Tasks :
        /\ pc[t1] = "done" /\ pc[t2] = "done"
        /\ user_redis[t1] = None /\ IsPrivateWithUser(event[t1])
        /\ UserOf(t1).username = Some("alice")
        /\ user_data[t1][1].username = "@alice"
        /\ user_redis[t2] # None
        /\ user_redis[t2][1].username = "@alice"
        /\ UserOf(t2).username = None
        /\ \A d \in Matching(col, UserOf(t2).id) : d.username = "-"

\* the profile of a first contact of task t's user, field by field
FirstContactProfile(t) ==
    [id |-> UserOf(t).id,
     full_name |-> UserOf(t).full_name,
     username |-> ExpectedUsername(t),
     is_banned |-> FALSE,
     message_thread_id |-> None,
     message_silent_id |-> None,
     message_silent_mode |-> FALSE,
     language_code |-> IF Len(supported) = 1 THEN Some(supported[1]) ELSE None]

ContextInjected ==
    [][\A t \in Tasks :
          /\ Invoked(t)' =>
               /\ "redis" \in DOMAIN data'[t]
               /\ "user_data" \in DOMAIN data'[t]
               /\ data'[t].redis = "RedisStorage"
               /\ IF IsPrivateWithUser(event'[t])
                    THEN user_data'[t] # None /\ data'[t].user_data = user_data'[t]
                    ELSE data'[t].user_data = None
          /\ calls'[t] = (IF pc'[t] = "done" THEN 1 ELSE 0)
          /\ pc[t] = "done" => pc'[t] = "done"
          /\ (MiddlewareWrite(t) /\ pc'[t] = "handler") =>
               data'[t].user_data[1] \in Stored(col', UserOf(t).id)]_vars

ContextInjectedWitness ==
    \E t \in Tasks :
        /\ pc[t] = "done"
        /\ IsPrivateWithUser(event[t])
        /\ calls[t] = 1
        /\ data[t] = [redis |-> "RedisStorage", user_data |-> user_data[t]]
        /\ user_redis[t] # None
        /\ user_data[t] # user_redis[t]

\* no user id has two documents
UniqueIds == \A u \in Users : Cardinality(Matching(col, u)) <= 1

HasProfile(c, u) == \E d \in Matching(c, u) : CanParse(Pop_id(d))

\* C16: no step removes a profile: a user id that has one keeps one; and a
\* private event that got past its store write without a failure leaves a
\* profile of its user in the collection.
ProfilesKept ==
    [][/\ \A u \in Users : HasProfile(col, u) => HasProfile(col', u)
       /\ \A u \in Users : Matching(col, u) # {} => Matching(col', u) # {}
       /\ \A t \in Tasks :
            (Invoked(t)' /\ IsPrivateWithUser(event'[t])) =>
                HasProfile(col', UserOf(t).id)]_vars

\* a new user's event completed and the profile it stored is there
ProfilesKeptWitness ==
    \E t \in Tasks :
        /\ pc[t] = "done"
        /\ IsPrivateWithUser(event[t])
        /\ user_redis[t] = None
        /\ raised[t] = ""
        /\ HasProfile(col, UserOf(t).id)
        /\ \E s \in Tasks : s # t /\ pc[s] = "done" /\ IsPrivateWithUser(event[s])
                            /\ UserOf(s).id = UserOf(t).id /\ user_redis[s] # None

\* the one document of task t's user does not parse into a UserData
ReadsMalformed(t) ==
    /\ Matching(col, UserOf(t).id) # {}
    /\ \A d \in Matching(col, UserOf(t).id) : ~CanParse(Pop_id(d))

\* C17: a read that meets a document that does not parse fails; the event of
\* that read writes nothing, injects nothing, never reaches its handler, and
\* the document stays in the collection as it was.
MalformedRecordFails ==
    [][\A t \in Tasks :
          /\ (pc[t] = "get_user" /\ pc'[t] # "get_user" /\ ReadsMalformed(t)) =>
               /\ pc'[t] = "failed"
               /\ raised'[t] \in {"TypeError", "StoreUnavailable"}
               /\ col' = col
          /\ raised'[t] = "TypeError" =>
               /\ pc'[t] = "failed"
               /\ user_data'[t] = None
               /\ writes'[t] = 0
               /\ calls'[t] = 0
               /\ data'[t] = NotInjected
               /\ ReadsMalformed(t)'
          /\ \A d \in col : ~CanParse(Pop_id(d)) => d \in col']_vars

\* the read failed on the document and the document is still there
MalformedRecordFailsWitness ==
    \E t \in Tasks :
        /\ pc[t] = "failed"
        /\ raised[t] = "TypeError"
        /\ reads[t] = 1 /\ writes[t] = 0 /\ calls[t] = 0
        /\ data[t] = NotInjected
        /\ Foreign(UserOf(t).id) \in col

\* ------------------------------------------------------------ main
\* the state of the pipeline, which main's own steps do not touch
pipeline == <<supported, col, pc, event, user_redis, user_data, data, reads,
              writes, calls, creations, faulted, raised, outOfCore>>

StepDone(i, outcome) == [main.steps EXCEPT ![i] = outcome]

\* the next cleanup step is the i-th: the finally block is running, the steps
\* before it have been attempted and this one has not
AtStep(i) == /\ main.pc = "finally"
             /\ \A j \in 1..(i - 1) : main.steps[j] # "pending"
             /\ main.steps[i] = "pending"

AfterStep(i) == IF i = Len(CleanupSteps) THEN "exit" ELSE "finally"

\* await bot.delete_webhook() in the try block: it returns or it raises
MainDeleteWebhook ==
    /\ main.pc = "delete_webhook"
    /\ \/ main' = [main EXCEPT !.pc = "startup"]
       \/ main' = [main EXCEPT !.pc = "finally", !.failed = TRUE]
    /\ UNCHANGED pipeline

\* on_startup, called by start_polling: apscheduler.start(), commands.setup
OnStartup ==
    /\ main.pc = "startup"
    /\ \/ main' = [main EXCEPT !.pc = "polling", !.scheduler = "running"]
       \/ main' = [main EXCEPT !.pc = "stopping", !.failed = TRUE]
       \/ main' = [main EXCEPT !.pc = "stopping", !.failed = TRUE,
                               !.scheduler = "running"]
    /\ UNCHANGED pipeline

\* polling ends: by a stop signal or by an exception
PollingEnds ==
    /\ main.pc = "polling"
    /\ \E exc \in BOOLEAN : main' = [main EXCEPT !.pc = "stopping", !.failed = exc]
    /\ UNCHANGED pipeline

\* on_shutdown: apscheduler.shutdown() waits for the jobs and raises when the
\* scheduler is not running; each of the calls after it may raise
OnShutdown ==
    /\ main.pc = "stopping"
    /\ IF main.scheduler = "running"
         THEN \E exc \in BOOLEAN :
                main' = [main EXCEPT !.pc = "finally", !.scheduler = "stopped",
                                     !.on_shutdown = TRUE, !.wait = Some(TRUE),
                                     !.failed = main.failed \/ exc]
         ELSE main' = [main EXCEPT !.pc = "finally", !.on_shutdown = TRUE,
                                   !.wait = Some(TRUE), !.failed = TRUE]
    /\ UNCHANGED pipeline

\* start_polling is left by an exception before on_shutdown was called
ShutdownSkipped ==
    /\ main.pc = "stopping"
    /\ main.failed
    /\ main' = [main EXCEPT !.pc = "finally"]
    /\ UNCHANGED pipeline

\* apscheduler.shutdown(wait=False) with the exception left to propagate
CleanupSchedulerUnguarded ==
    /\ AtStep(1)
    /\ IF main.scheduler = "running"
         THEN \/ main' = [main EXCEPT !.steps = StepDone(1, "done"),
                                      !.scheduler = "stopped", !.wait = Some(FALSE)]
              \/ main' = [main EXCEPT !.steps = StepDone(1, "raised"),
                                      !.wait = Some(FALSE), !.pc = "exit"]
         ELSE main' = [main EXCEPT !.steps = StepDone(1, "raised"),
                                   !.wait = Some(FALSE), !.pc = "exit"]
    /\ UNCHANGED pipeline

\* try: apscheduler.shutdown(wait=False) / except Exception: pass
\* shutdown raises SchedulerNotRunningError when the scheduler is not running
CleanupScheduler ==
    /\ AtStep(1)
    /\ IF main.scheduler = "running"
         THEN \/ main' = [main EXCEPT !.steps = StepDone(1, "done"),
                                      !.scheduler = "stopped", !.wait = Some(FALSE)]
              \/ main' = [main EXCEPT !.steps = StepDone(1, "raised"),
                                      !.wait = Some(FALSE)]
         ELSE main' = [main EXCEPT !.steps = StepDone(1, "raised"),
                                   !.wait = Some(FALSE)]
    /\ UNCHANGED pipeline

\* a guarded call of the finally block: it returns or raises, and the
\* exception is dropped
GuardedClose(i) ==
    /\ AtStep(i)
    /\ \E outcome \in {"done", "raised"} :
         main' = [main EXCEPT !.steps = StepDone(i, outcome), !.pc = AfterStep(i)]
    /\ UNCHANGED pipeline

\* try: pymongo_client.close() / except Exception: pass
CleanupPymongo == GuardedClose(2)

\* try: mongo_client.close() / except Exception: pass
CleanupMotor == GuardedClose(3)

\* try: await bot.session.close() / except Exception: pass
CleanupSession == GuardedClose(4)

MainNext == \/ MainDeleteWebhook
            \/ OnStartup
            \/ PollingEnds
            \/ OnShutdown
            \/ ShutdownSkipped
            \/ CleanupScheduler
            \/ CleanupPymongo
            \/ CleanupMotor
            \/ CleanupSession

SpecMain == Init /\ [][MainNext]_vars

\* C18: however the try block of main is left, the finally block attempts the
\* scheduler shutdown without waiting and then, whatever any step raised, the
\* close of the synchronous client, of the asynchronous client and of the bot
\* session, in that order; main does not end before all four were attempted,
\* also when on_shutdown had already stopped the scheduler.
CleanupAlwaysAttempted ==
    /\ main.pc = "exit" =>
         /\ \A i \in 1..Len(CleanupSteps) : main.steps[i] # "pending"
         /\ main.wait = Some(FALSE)
    /\ \A i \in 1..Len(CleanupSteps) :
         main.steps[i] # "pending" =>
             /\ main.pc \in {"finally", "exit"}
             /\ \A j \in 1..i : main.steps[j] # "pending"
    /\ main.steps[1] = "done" => main.scheduler = "stopped"

\* on_shutdown had stopped the scheduler, the second shutdown raised, another
\* close raised too, and all four steps were attempted
CleanupAlwaysAttemptedWitness ==
    /\ main.pc = "exit"
    /\ main.on_shutdown
    /\ main.scheduler = "stopped"
    /\ main.steps[1] = "raised"
    /\ main.steps[2] = "raised"
    /\ main.steps[3] = "done"
    /\ main.steps[4] = "done"

====
